---- MODULE Spec2Model ----
(***************************************************************************)
(* refl1d: the layer model (model.py) rendered into a microslab buffer,    *)
(* and the Experiment theory calculator with its result cache              *)
(* (experiment.py).                                                        *)
(*                                                                         *)
(* The specifications that share the module:                               *)
(*   SpecRender   one call of Repeat.render on an input drawn from small   *)
(*                sets (a pure function of the Repeat and the buffer);     *)
(*   Spec         an Experiment driven by a caller that changes            *)
(*                parameters, calls update() and queries;                  *)
(*   SpecAlgebra  a script that builds layers with +, *, / and %, calls    *)
(*                Stack.add and renders, over a heap of objects;           *)
(*   SpecInPlace  a script of /, %, /= and %= over the same heap;           *)
(*   SpecPair     two Experiment instances driven in any interleaving;     *)
(*   SpecMixture  one call sequence on a CompositeExperiment or a          *)
(*                DistributionExperiment, from construction to the result. *)
(***************************************************************************)
EXTENDS Integers, Sequences, FiniteSets, TLC

VARIABLES
    \* ---- Repeat.render, one call
    rep,        \* the Repeat layer render was called on
    mark0,      \* the buffer as it was passed in
    buf,        \* the buffer after the call
    calls,      \* the calls render made on the stack and the buffer, in order
    \* ---- Experiment
    sample,     \* Experiment.sample, the layer tree with its parameter values
    probe,      \* the probe: which data it carries, whether calc_Q is finite
    cache,      \* Experiment._cache, a dict: key -> stored result
    slabs,      \* Experiment._slabs, the microslab buffer
    ret,        \* what the last call returned or raised
    nRender,    \* passes of sample.render since the last update()
    nRefl,      \* calls of refl() since the last update()
    staleDropped, \* whether the last update() dropped results of older parameter values
    \* ---- the layer algebra
    heap,       \* the objects made so far; an object's id is its index
    aret,       \* what the last operation of the script returned or raised
    nOps,       \* operations the script has run
    \* ---- two Experiment instances
    exps,       \* the two instances: sample, probe, _cache, _slabs (a reference)
    bufs,       \* the Microslabs objects, by reference
    pret,       \* what the last call on either instance returned
    alone,      \* each instance as it would be had it run with no other
    \* ---- CompositeExperiment and DistributionExperiment
    mix         \* the call sequence that ran, its inputs and its outcome

vars == <<rep, mark0, buf, calls, sample, probe, cache, slabs, ret,
          nRender, nRefl, staleDropped, heap, aret, nOps, exps, bufs, pret,
          alone, mix>>

renderVars == <<rep, mark0, buf, calls>>
expVars == <<sample, probe, cache, slabs, ret, nRender, nRefl, staleDropped>>
algebraVars == <<heap, aret, nOps>>
pairVars == <<exps, bufs, pret, alone>>
mixVars == <<mix>>

(***************************************************************************)
(* Bounds                                                                  *)
(***************************************************************************)
MaxRepeat == 2      \* repeat counts run over 0..MaxRepeat
MaxThick == 2       \* thicknesses run over 10, 20, .., 10 * MaxThick
CounterCap == 3     \* nRender and nRefl stop counting here
MaxOps == 2         \* operations in a script over the layer algebra
MaxParts == 2       \* samples of a CompositeExperiment
MaxRatio == 2       \* ratios run over 1..MaxRatio
MaxBins == 2        \* bins of a distribution
MaxWeight == 1      \* bin weights run over 0..MaxWeight

RepeatCounts == 0..MaxRepeat
Thicknesses == { 10 * i : i \in 1..MaxThick }
DzValues == {1}

(***************************************************************************)
(* Materials: sld(probe) gives (rho, irho), in units of 1e-8/A^2.          *)
(***************************************************************************)
Materials == {"Si", "A", "B", "air"}

sld(material) ==
    CASE material = "Si"  -> [rho |-> 207, irho |-> 0]
      [] material = "A"   -> [rho |-> 450, irho |-> 0]
      [] material = "B"   -> [rho |-> 100, irho |-> 5]
      [] material = "air" -> [rho |-> 0, irho |-> 0]

(***************************************************************************)
(* Microslabs, the slab buffer: a sequence of slabs (w, rho, irho, sigma), *)
(* sigma being the roughness of the interface on top of the slab.          *)
(***************************************************************************)
clear == << >>

extend(buffer, rho, irho, w, sigma) ==
    Append(buffer, [w |-> w, rho |-> rho, irho |-> irho, sigma |-> sigma])

RECURSIVE Copies(_, _)
Copies(span, count) ==
    IF count <= 0 THEN << >> ELSE span \o Copies(span, count - 1)

\* repeat(mark, count): the span from mark to the end, appended count times
repeatSpan(buffer, mark, count) ==
    buffer \o Copies(SubSeq(buffer, mark + 1, Len(buffer)), count)

\* interface(width): the roughness on top of the last slab written
interface(buffer, width) ==
    IF Len(buffer) = 0 THEN buffer
    ELSE [buffer EXCEPT ![Len(buffer)].sigma = width]

(***************************************************************************)
(* Layers.  A Slab is a block of material, a Stack a sequence of layers,   *)
(* a Repeat one Stack with a repeat count and an optional interface        *)
(* (hasInterface = FALSE is interface None).                               *)
(***************************************************************************)
Slab(material, thickness, width) ==
    [type |-> "Slab", material |-> material, thickness |-> thickness,
     interface |-> width]

Stack(layers) == [type |-> "Stack", layers |-> layers]

Repeat(stack, repeat, hasInterface, width) ==
    [type |-> "Repeat", stack |-> stack, repeat |-> repeat,
     hasInterface |-> hasInterface, interface |-> width]

\* Slab.render
SlabRender(layer, buffer) ==
    LET s == sld(layer.material)
    IN  extend(buffer, s.rho, s.irho, layer.thickness, layer.interface)

\* The calls Repeat.render makes, in order: "render" is stack.render(probe,
\* slabs), "repeat" is slabs.repeat(mark, arg), "interface" is
\* slabs.interface(arg).
RepeatCalls(layer) ==
    LET nr == layer.repeat
    IN  IF ~layer.hasInterface
        THEN IF nr > 0
             THEN << [call |-> "render", arg |-> 0],
                     [call |-> "repeat", arg |-> nr] >>
             ELSE << >>
        ELSE (IF nr > 1
              THEN << [call |-> "render", arg |-> 0],
                      [call |-> "repeat", arg |-> nr - 1] >>
              ELSE << >>)
             \o << [call |-> "render", arg |-> 0],
                   [call |-> "interface", arg |-> layer.interface] >>

RECURSIVE Render(_, _)
RECURSIVE StackRender(_, _, _)
RECURSIVE RepeatApply(_, _, _, _, _)

\* Stack.render: each layer in order, from layer i on
StackRender(layers, i, buffer) ==
    IF i > Len(layers) THEN buffer
    ELSE StackRender(layers, i + 1, Render(layers[i], buffer))

\* Repeat.render, carrying out RepeatCalls from call i on
RepeatApply(layer, cs, i, mark, buffer) ==
    IF i > Len(cs) THEN buffer
    ELSE LET c == cs[i]
             next == CASE c.call = "render" ->
                              StackRender(layer.stack.layers, 1, buffer)
                       [] c.call = "repeat" -> repeatSpan(buffer, mark, c.arg)
                       [] c.call = "interface" -> interface(buffer, c.arg)
         IN  RepeatApply(layer, cs, i + 1, mark, next)

\* Repeat.render
RepeatRender(layer, buffer) ==
    RepeatApply(layer, RepeatCalls(layer), 1, Len(buffer), buffer)

\* layer.render(probe, slabs)
Render(layer, buffer) ==
    CASE layer.type = "Slab" -> SlabRender(layer, buffer)
      [] layer.type = "Stack" -> StackRender(layer.layers, 1, buffer)
      [] layer.type = "Repeat" -> RepeatRender(layer, buffer)

(***************************************************************************)
(* SpecRender: Repeat.render called once on a Repeat and a buffer drawn    *)
(* from small sets.                                                        *)
(***************************************************************************)
InnerStacks ==
    { Stack(<< Slab("A", t, 2) >>) : t \in Thicknesses }
    \cup { Stack(<< Slab("A", t, 2), Slab("B", 10, 3) >>) : t \in Thicknesses }
    \cup { Stack(<< Slab("A", 10, 2), Slab("B", 10, 3), Slab("A", 20, 3) >>) }

CapWidths == {7, 8}

Repeats ==
    { Repeat(s, n, FALSE, 0) : s \in InnerStacks, n \in RepeatCounts }
    \cup { Repeat(s, n, TRUE, w) :
             s \in InnerStacks, n \in RepeatCounts, w \in CapWidths }

\* buffers a Repeat is rendered into: empty, or already holding slabs
Prefixes ==
    { clear,
      SlabRender(Slab("Si", 0, 5), clear),
      SlabRender(Slab("B", 10, 3), SlabRender(Slab("Si", 0, 5), clear)) }

NoRepeat == Repeat(Stack(<< >>), 0, FALSE, 0)

\* what rendering the inner stack directly once appends to the buffer
InnerOnce(layer, buffer) == StackRender(layer.stack.layers, 1, buffer)

CountCalls(cs, name) == Cardinality({ i \in 1..Len(cs) : cs[i].call = name })

\* whether Repeat.render has been called in this state
Called == rep # NoRepeat

RenderInit ==
    /\ rep = NoRepeat
    /\ mark0 = clear
    /\ buf = clear
    /\ calls = << >>

\* one call rep.render(probe, slabs)
RepeatRenderCall ==
    \E r \in Repeats, b \in Prefixes :
        /\ rep' = r
        /\ mark0' = b
        /\ buf' = RepeatRender(r, b)
        /\ calls' = RepeatCalls(r)

(***************************************************************************)
(* Experiment                                                              *)
(***************************************************************************)
\* The sample: substrate, a repeated bilayer, surface; capped says whether
\* the Repeat has an interface of its own.  The fitted parameter is the
\* thickness of the first bilayer slab.
SampleOf(thickness, repeat, capped) ==
    Stack(<< Slab("Si", 0, 5),
             Repeat(Stack(<< Slab("A", thickness, 2), Slab("B", 10, 3) >>),
                    repeat, capped, IF capped THEN 7 ELSE 0),
             Slab("air", 0, 0) >>)

Samples == { SampleOf(t, 2, FALSE) : t \in Thicknesses }

\* The probe: Q and calc_Q are grids; R and dR may be absent (None);
\* calc_Q.nan says whether the calculation grid holds a NaN.
ProbeOf(hasR, hasdR, nan) ==
    [Q |-> "Q", calc_Q |-> [grid |-> "calc_Q", nan |-> nan],
     hasR |-> hasR, hasdR |-> hasdR]

\* with data, without data, with R but no dR, with a NaN in calc_Q
Probes ==
    { ProbeOf(TRUE, TRUE, FALSE), ProbeOf(FALSE, FALSE, FALSE),
      ProbeOf(TRUE, FALSE, FALSE), ProbeOf(TRUE, TRUE, TRUE) }

None == [op |-> "None"]

Has(dict, key) == key \in DOMAIN dict

Put(dict, key, value) ==
    [k \in DOMAIN dict \cup {key} |-> IF k = key THEN value ELSE dict[k]]

EmptyDict == [k \in {} |-> None]

Count(n) == IF n < CounterCap THEN n + 1 ELSE n

\* ---- the numerical collaborators, as terms over their inputs; nan says
\* ---- whether the array holds a NaN
\* abeles.refl(kz = -calc_Q/2, depth, rho, irho, sigma)
refl(calc_Q, buffer) ==
    [op |-> "refl", Q |-> calc_Q.grid, slabs |-> buffer, nan |-> calc_Q.nan]

Abs2(r) == [op |-> "abs2", of |-> r, nan |-> r.nan]
Part(which, r) == [op |-> which, of |-> r, nan |-> r.nan]
Complex(re, im) == [op |-> "complex", re |-> re, im |-> im,
                    nan |-> re.nan \/ im.nan]
\* probe.resolution(array on calc_Q) -> array on Q
Resolution(a) == [op |-> "resolution", of |-> a, nan |-> a.nan]
\* probe.beam_parameters(array)
BeamParameters(a) == [op |-> "beam", of |-> a, nan |-> a.nan]

\* Microslabs.sigma: one roughness per interface, none above the last slab
Sigma(buffer) ==
    [i \in 1..(IF Len(buffer) = 0 THEN 0 ELSE Len(buffer) - 1) |->
        buffer[i].sigma]

\* the object's mutable state, as the methods pass it along
Self == [sample |-> sample, probe |-> probe, cache |-> cache,
         slabs |-> slabs, nRender |-> nRender, nRefl |-> nRefl]

\* update() that forgets only the rendering
update_rendered_only(self) ==
    [self EXCEPT !.cache = [k \in DOMAIN @ \ {<<"rendered">>} |-> @[k]],
                 !.nRender = 0, !.nRefl = 0]

\* ExperimentBase.update
update(self) ==
    [self EXCEPT !.cache = EmptyDict, !.nRender = 0, !.nRefl = 0]

\* _render_slabs that does not record 'rendered'
render_slabs_unrecorded(self) ==
    [self EXCEPT !.slabs = Render(self.sample, clear), !.nRender = Count(@)]

\* _render_slabs that does not clear the buffer before the pass
render_slabs_accumulating(self) ==
    IF Has(self.cache, <<"rendered">>) THEN self
    ELSE [self EXCEPT !.slabs = Render(self.sample, self.slabs),
                      !.cache = Put(@, <<"rendered">>, TRUE),
                      !.nRender = Count(@)]

\* Experiment._render_slabs
render_slabs(self) ==
    IF Has(self.cache, <<"rendered">>) THEN self
    ELSE [self EXCEPT !.slabs = Render(self.sample, clear),
                      !.cache = Put(@, <<"rendered">>, TRUE),
                      !.nRender = Count(@)]

\* _reflamp that reads the buffer without calling _render_slabs
reflamp_unrendered(self) ==
    IF Has(self.cache, <<"calc_r">>) THEN self
    ELSE [self EXCEPT
             !.cache = Put(@, <<"calc_r">>,
                           refl(self.probe.calc_Q, self.slabs)),
             !.nRefl = Count(@)]

\* Experiment._reflamp; the stored value is then cache[<<"calc_r">>].
\* The two isnan tests only print.
reflamp(self) ==
    IF Has(self.cache, <<"calc_r">>) THEN self
    ELSE LET s1 == render_slabs(self)
             calc_r == refl(self.probe.calc_Q, s1.slabs)
         IN  [s1 EXCEPT !.cache = Put(@, <<"calc_r">>, calc_r),
                        !.nRefl = Count(@)]

\* Experiment.amplitude
amplitude(self) ==
    IF Has(self.cache, <<"amplitude">>) THEN self
    ELSE LET s1 == reflamp(self)
             calc_r == s1.cache[<<"calc_r">>]
             r == Complex(Resolution(Part("real", calc_r)),
                          Resolution(Part("imag", calc_r)))
         IN  [s1 EXCEPT !.cache =
                 Put(@, <<"amplitude">>, [Q |-> self.probe.Q, r |-> r])]

\* a key that leaves the beam flag out
ReflKey_no_beam(resolution, beam) == <<"reflectivity", resolution>>

ReflKey(resolution, beam) == <<"reflectivity", resolution, beam>>

\* Experiment.reflectivity
reflectivity(self, resolution, beam) ==
    LET key == ReflKey(resolution, beam)
    IN  IF Has(self.cache, key) THEN self
        ELSE LET s1 == reflamp(self)
                 calc_r == s1.cache[<<"calc_r">>]
                 calc_R == Abs2(calc_r)
                 Q == IF resolution THEN self.probe.Q ELSE self.probe.calc_Q.grid
                 R == IF resolution THEN Resolution(calc_R) ELSE calc_R
                 Rb == IF beam THEN BeamParameters(R) ELSE R
             IN  [s1 EXCEPT !.cache = Put(@, key, [Q |-> Q, R |-> Rb])]

\* Experiment.smooth_profile
smooth_profile(self, dz) ==
    IF Has(self.cache, <<"smooth_profile", dz>>) THEN self
    ELSE LET s1 == render_slabs(self)
             prof == [op |-> "smooth_profile", dz |-> dz,
                      roughness_limit |-> "2.5", slabs |-> s1.slabs]
         IN  [s1 EXCEPT !.cache = Put(@, <<"smooth_profile", dz>>, prof)]

\* Experiment.step_profile
step_profile(self) ==
    IF Has(self.cache, <<"step_profile">>) THEN self
    ELSE LET s1 == render_slabs(self)
             prof == [op |-> "step_profile", slabs |-> s1.slabs]
         IN  [s1 EXCEPT !.cache = Put(@, <<"step_profile">>, prof)]

\* residuals that looks for probe.R only after computing the theory
residuals_late_check(self) ==
    LET s1 == reflectivity(self, TRUE, TRUE)
    IN  IF ~self.probe.hasR THEN [self |-> s1, err |-> "ValueError"]
        ELSE [self |-> s1, err |-> "TypeError"]

\* ExperimentBase.residuals: the state it leaves and the error it raises
residuals(self) ==
    IF ~self.probe.hasR
    THEN [self |-> self, err |-> "ValueError"]
    ELSE IF Has(self.cache, <<"residuals">>)
    THEN [self |-> self, err |-> "none"]
    ELSE LET s1 == reflectivity(self, TRUE, TRUE)
             R == s1.cache[ReflKey(TRUE, TRUE)].R
         IN  IF ~self.probe.hasdR
             THEN \* (self.probe.R - R) / None
                  [self |-> s1, err |-> "TypeError"]
             ELSE [self |-> [s1 EXCEPT !.cache =
                                Put(@, <<"residuals">>,
                                    [op |-> "residuals", R |-> R,
                                     nan |-> R.nan])],
                   err |-> "none"]

\* ExperimentBase.nllf
nllf(self) ==
    IF ~Has(self.cache, <<"nllf_scale">>) /\ ~self.probe.hasdR
    THEN [self |-> self, err |-> "ValueError"]
    ELSE LET s1 == IF Has(self.cache, <<"nllf_scale">>) THEN self
                   ELSE [self EXCEPT !.cache =
                            Put(@, <<"nllf_scale">>, [op |-> "nllf_scale"])]
         IN  residuals(s1)

Result(op, args, err, val) ==
    [op |-> op, args |-> args, err |-> err, val |-> val]

\* whether the cache holds results of a rendering of other parameter values
IsStale == Has(cache, <<"rendered">>) /\ slabs # Render(sample, clear)

Install(self) ==
    /\ cache' = self.cache
    /\ slabs' = self.slabs
    /\ nRender' = self.nRender
    /\ nRefl' = self.nRefl

ExpInit ==
    /\ sample \in Samples
    /\ probe \in Probes
    /\ cache = EmptyDict
    /\ slabs = clear
    /\ ret = Result("init", << >>, "none", None)
    /\ nRender = 0
    /\ nRefl = 0
    /\ staleDropped = FALSE

\* The caller sets a parameter of the sample (Parameter.set); calling
\* update() afterwards is the caller's business.
SetParameter ==
    \E s \in Samples :
        /\ s # sample
        /\ sample' = s
        /\ ret' = Result("set", << >>, "none", None)
        /\ UNCHANGED <<probe, cache, slabs, nRender, nRefl, staleDropped>>

Update ==
    /\ Install(update(Self))
    /\ staleDropped' = IsStale
    /\ ret' = Result("update", << >>, "none", None)
    /\ UNCHANGED <<sample, probe>>

Reflectivity ==
    \E resolution \in BOOLEAN, beam \in BOOLEAN :
        LET s1 == reflectivity(Self, resolution, beam)
        IN  /\ Install(s1)
            /\ ret' = Result("reflectivity", <<resolution, beam>>, "none",
                             s1.cache[ReflKey(resolution, beam)])
            /\ UNCHANGED <<sample, probe, staleDropped>>

Amplitude ==
    LET s1 == amplitude(Self)
    IN  /\ Install(s1)
        /\ ret' = Result("amplitude", << >>, "none", s1.cache[<<"amplitude">>])
        /\ UNCHANGED <<sample, probe, staleDropped>>

SmoothProfile ==
    \E dz \in DzValues :
        LET s1 == smooth_profile(Self, dz)
        IN  /\ Install(s1)
            /\ ret' = Result("smooth_profile", <<dz>>, "none",
                             s1.cache[<<"smooth_profile", dz>>])
            /\ UNCHANGED <<sample, probe, staleDropped>>

StepProfile ==
    LET s1 == step_profile(Self)
    IN  /\ Install(s1)
        /\ ret' = Result("step_profile", << >>, "none",
                         s1.cache[<<"step_profile">>])
        /\ UNCHANGED <<sample, probe, staleDropped>>

\* Experiment.slabs
Slabs ==
    LET s1 == render_slabs(Self)
        b == s1.slabs
    IN  /\ Install(s1)
        /\ ret' = Result("slabs", << >>, "none",
                         [w |-> [i \in 1..Len(b) |-> b[i].w],
                          sigma |-> <<0>> \o Sigma(b),
                          rho |-> [i \in 1..Len(b) |-> b[i].rho],
                          irho |-> [i \in 1..Len(b) |-> b[i].irho]])
        /\ UNCHANGED <<sample, probe, staleDropped>>

\* Experiment.fresnel
Fresnel ==
    LET s1 == render_slabs(Self)
        b == s1.slabs
    IN  /\ Install(s1)
        /\ ret' = Result("fresnel", << >>, "none",
                         [op |-> "fresnel", rho |-> b[1].rho,
                          irho |-> b[1].irho, sigma |-> Sigma(b)[1],
                          Vrho |-> b[Len(b)].rho, Virho |-> b[Len(b)].irho,
                          Q |-> probe.Q])
        /\ UNCHANGED <<sample, probe, staleDropped>>

Residuals ==
    LET r == residuals(Self)
    IN  /\ Install(r.self)
        /\ ret' = Result("residuals", << >>, r.err,
                         IF r.err = "none" THEN r.self.cache[<<"residuals">>]
                         ELSE None)
        /\ UNCHANGED <<sample, probe, staleDropped>>

Nllf ==
    LET r == nllf(Self)
    IN  /\ Install(r.self)
        /\ ret' = Result("nllf", << >>, r.err,
                         IF r.err = "none"
                         THEN [op |-> "sumsq",
                               of |-> r.self.cache[<<"residuals">>]]
                         ELSE None)
        /\ UNCHANGED <<sample, probe, staleDropped>>

(***************************************************************************)
(* The layer algebra (model.py), over a heap of objects.  An object's id   *)
(* is its index in the heap; 0 is None.  Attributes that hold objects hold *)
(* ids, so that two layers can share a parameter and two stacks a layer.   *)
(* An operation returns the heap it leaves, the object it returns and the  *)
(* exception it raises; objects made before a raise stay in the heap.      *)
(***************************************************************************)
Out(h, ref, err) == [heap |-> h, ref |-> ref, err |-> err]

\* mystic Parameter / IntegerParameter: a value that set() overwrites
Parameter(value) == [kind |-> "Parameter", value |-> value]

\* Parameter.set
set(h, par, value) == [h EXCEPT ![par].value = value]

\* a material
Scatterer(name) == [kind |-> "Scatterer", name |-> name]

\* an object that is neither a layer, a material nor a sequence (a number)
Other == [kind |-> "Other"]

\* a Python list of objects
PyList(items) == [kind |-> "list", items |-> items]

IsLayer(o) == o.kind \in {"Slab", "Stack", "Repeat"}

\* copy.copy: a new object with the same attribute values; Stack.__copy__
\* gives the copy a list of its own holding the same layers
copy(h, x) == Out(Append(h, h[x]), Len(h) + 1, "none")

\* Slab.__init__(material, thickness, interface), on numbers: Par.default
\* makes a parameter of each
Slab__init__(h, material, thickness, width) ==
    LET h1 == Append(h, Parameter(thickness))
        h2 == Append(h1, Parameter(width))
    IN  Out(Append(h2, [kind |-> "Slab", material |-> material,
                        thickness |-> Len(h) + 1, interface |-> Len(h) + 2]),
            Len(h) + 3, "none")

\* Stack.__init__(base=None)
Stack__init__(h) ==
    Out(Append(h, [kind |-> "Stack", interface |-> 0, layers |-> << >>]),
        Len(h) + 1, "none")

\* Repeat.__init__(stack, repeat, interface), repeat a number
Repeat__init__(h, stack, repeat, width) ==
    LET h1 == Append(h, Parameter(repeat))
    IN  Out(Append(h1, [kind |-> "Repeat", stack |-> stack,
                        repeat |-> Len(h) + 1, interface |-> width]),
            Len(h) + 2, "none")

\* _check_layer that lets every object through
check_layer_lax(h, el) ==
    IF h[el].kind = "Scatterer" THEN Slab__init__(h, el, 0, 0)
    ELSE Out(h, el, "none")

\* _check_layer: a layer as it is, a material in a new Slab
check_layer(h, el) ==
    IF IsLayer(h[el]) THEN Out(h, el, "none")
    ELSE IF h[el].kind = "Scatterer" THEN Slab__init__(h, el, 0, 0)
    ELSE Out(h, 0, "TypeError")

\* self._layers.extend(_check_layer(el) for el in L): the list takes the
\* elements one by one as the generator yields them, so those before a
\* refused element stay appended
RECURSIVE ExtendChecked(_, _, _, _)
ExtendChecked(h, self, L, i) ==
    IF i > Len(L) THEN Out(h, 0, "none")
    ELSE LET c == check_layer(h, L[i])
         IN  IF c.err # "none" THEN Out(c.heap, 0, c.err)
             ELSE ExtendChecked(
                      [c.heap EXCEPT ![self].layers = Append(@, c.ref)],
                      self, L, i + 1)

\* Stack.add that takes a Stack as one element
add_nested(h, self, other) ==
    ExtendChecked(h, self,
                  IF h[other].kind = "list" THEN h[other].items
                  ELSE <<other>>, 1)

\* Stack.add; iter(other) succeeds on a list and fails on a layer, a
\* material and a number
add(h, self, other) ==
    IF h[other].kind = "Stack"
    THEN Out([h EXCEPT ![self].layers = @ \o h[other].layers], 0, "none")
    ELSE ExtendChecked(h, self,
                       IF h[other].kind = "list" THEN h[other].items
                       ELSE <<other>>, 1)

\* Stack.__setitem__(idx, other), idx an index in range (not a slice)
Stack__setitem__(h, self, idx, other) ==
    LET c == check_layer(h, other)
    IN  IF c.err # "none" THEN Out(c.heap, 0, c.err)
        ELSE Out([c.heap EXCEPT ![self].layers[idx + 1] = c.ref], 0, "none")

\* s = Stack(); s.add(self); s.add(other); return s
Layer__add__(h, self, other) ==
    LET s == Stack__init__(h)
        a == add(s.heap, s.ref, self)
        b == add(a.heap, s.ref, other)
    IN  IF a.err # "none" THEN Out(a.heap, 0, a.err)
        ELSE IF b.err # "none" THEN Out(b.heap, 0, b.err)
        ELSE Out(b.heap, s.ref, "none")

Stack__add__(h, self, other) ==
    LET s == Stack__init__(h)
        a == add(s.heap, s.ref, self)
        b == add(a.heap, s.ref, other)
    IN  IF a.err # "none" THEN Out(a.heap, 0, a.err)
        ELSE IF b.err # "none" THEN Out(b.heap, 0, b.err)
        ELSE Out(b.heap, s.ref, "none")

MaterialStacker__add__(h, self, other) ==
    LET s == Stack__init__(h)
        a == add(s.heap, s.ref, self)
        b == add(a.heap, s.ref, other)
    IN  IF a.err # "none" THEN Out(a.heap, 0, a.err)
        ELSE IF b.err # "none" THEN Out(b.heap, 0, b.err)
        ELSE Out(b.heap, s.ref, "none")

\* a repeat count as Python sees it: isinstance(n, int) and the number
CountOf(isInt, value) == [isInt |-> isInt, value |-> value]

\* Layer.__mul__ without the test for a Slab
Layer__mul__any_layer(h, self, other) ==
    IF ~other.isInt \/ ~(other.value > 1) THEN Out(h, 0, "TypeError")
    ELSE LET s == Stack__init__(h)
             a == add(s.heap, s.ref, self)
         IN  Repeat__init__(a.heap, s.ref, other.value, 0)

\* Layer.__mul__ (and __rmul__, which calls it)
Layer__mul__(h, self, other) ==
    IF ~other.isInt \/ ~(other.value > 1) THEN Out(h, 0, "TypeError")
    ELSE IF h[self].kind = "Slab" THEN Out(h, 0, "TypeError")
    ELSE LET s == Stack__init__(h)
             a == add(s.heap, s.ref, self)
         IN  Repeat__init__(a.heap, s.ref, other.value, 0)

\* Stack.__mul__ (and __rmul__)
Stack__mul__(h, self, other) ==
    IF ~other.isInt \/ ~(other.value > 1) THEN Out(h, 0, "TypeError")
    ELSE Repeat__init__(h, self, other.value, 0)

\* Layer.__div__ that sets the thickness of the copy without cloning it
Layer__div__shared(h, self, other) ==
    LET c == copy(h, self)
    IN  IF h[self].kind # "Slab" THEN Out(c.heap, 0, "AttributeError")
        ELSE Out(set(c.heap, h[self].thickness, other), c.ref, "none")

\* Layer.__div__.  Only a Slab has a thickness parameter: Stack.thickness
\* is a property that reads self.repeat, which a Stack does not have, and
\* a Repeat's thickness is None, which has no set().
Layer__div__(h, self, other) ==
    LET c == copy(h, self)
    IN  IF h[self].kind # "Slab" THEN Out(c.heap, 0, "AttributeError")
        ELSE LET t == copy(c.heap, h[self].thickness)
             IN  Out(set([t.heap EXCEPT ![c.ref].thickness = t.ref],
                         t.ref, other),
                     c.ref, "none")

\* Layer.__mod__.  The interface of a Stack is None, and so is that of a
\* Repeat made without one.
Layer__mod__(h, self, other) ==
    LET c == copy(h, self)
    IN  IF h[self].interface = 0 THEN Out(c.heap, 0, "AttributeError")
        ELSE LET t == copy(c.heap, h[self].interface)
             IN  Out(set([t.heap EXCEPT ![c.ref].interface = t.ref],
                         t.ref, other),
                     c.ref, "none")

\* Layer.__idiv__: sets the layer's own thickness parameter and returns
\* the layer
Layer__idiv__(h, self, other) ==
    IF h[self].kind # "Slab" THEN Out(h, 0, "AttributeError")
    ELSE Out(set(h, h[self].thickness, other), self, "none")

\* Layer.__imod__: sets the layer's own interface parameter and returns
\* the layer
Layer__imod__(h, self, other) ==
    IF h[self].interface = 0 THEN Out(h, 0, "AttributeError")
    ELSE Out(set(h, h[self].interface, other), self, "none")

\* _MaterialStacker.__div__
MaterialStacker__div__(h, self, other) ==
    LET c == Slab__init__(h, self, 0, 0)
    IN  Out(set(c.heap, c.heap[c.ref].thickness, other), c.ref, "none")

\* _MaterialStacker.__mod__
MaterialStacker__mod__(h, self, other) ==
    LET c == Slab__init__(h, self, 0, 0)
    IN  Out(set(c.heap, c.heap[c.ref].interface, other), c.ref, "none")

\* the layer tree under an object, with the values of its parameters
RECURSIVE Tree(_, _)
Tree(h, x) ==
    CASE h[x].kind = "Slab" ->
             Slab(h[h[x].material].name, h[h[x].thickness].value,
                  h[h[x].interface].value)
      [] h[x].kind = "Stack" ->
             Stack([i \in 1..Len(h[x].layers) |-> Tree(h, h[x].layers[i])])
      [] h[x].kind = "Repeat" ->
             Repeat(Tree(h, h[x].stack), h[h[x].repeat].value,
                    h[x].interface # 0,
                    IF h[x].interface # 0 THEN h[h[x].interface].value ELSE 0)

\* render that uses up the repeat count of a Repeat it renders
render_consuming(h, x, buffer) ==
    [heap |-> IF h[x].kind = "Repeat" THEN set(h, h[x].repeat, 0) ELSE h,
     buffer |-> Render(Tree(h, x), buffer)]

\* layer.render(probe, slabs): the heap and the buffer it leaves
render(h, x, buffer) ==
    [heap |-> h, buffer |-> Render(Tree(h, x), buffer)]

\* whether y is x or lies under x
RECURSIVE Reaches(_, _, _)
Reaches(h, x, y) ==
    \/ x = y
    \/ /\ h[x].kind = "Stack"
       /\ \E i \in 1..Len(h[x].layers) : Reaches(h, h[x].layers[i], y)
    \/ /\ h[x].kind = "Repeat"
       /\ Reaches(h, h[x].stack, y)
    \/ /\ h[x].kind = "list"
       /\ \E i \in 1..Len(h[x].items) : Reaches(h, h[x].items[i], y)

(***************************************************************************)
(* A script over the layer algebra.  It starts from a material, a number,  *)
(* a slab L, a stack T = [L], a capped repeat of T, and two lists, and     *)
(* runs up to MaxOps operations on these and on the result of the last     *)
(* one.                                                                    *)
(***************************************************************************)
Heap0(thickness) ==
    << Scatterer("A"),                                          \* 1
       Other,                                                   \* 2
       Parameter(thickness),                                    \* 3
       Parameter(2),                                            \* 4
       [kind |-> "Slab", material |-> 1, thickness |-> 3,
        interface |-> 4],                                       \* 5: L
       [kind |-> "Stack", interface |-> 0, layers |-> <<5>>],   \* 6: T
       Parameter(2),                                            \* 7
       Parameter(7),                                            \* 8
       [kind |-> "Repeat", stack |-> 6, repeat |-> 7,
        interface |-> 8],                                       \* 9
       PyList(<<5, 2>>),                                        \* 10
       PyList(<<1, 5>>) >>                                      \* 11

\* the objects the script has a name for
Named == (1..Len(Heap0(0)) \cup {aret.ref}) \ {0}

NamedLayers == { x \in Named : IsLayer(heap[x]) }
NamedOperands == { x \in Named : heap[x].kind # "Parameter" }

Counts ==
    {CountOf(TRUE, n) : n \in RepeatCounts} \cup {CountOf(FALSE, MaxRepeat)}

SetValues == {30}

AlgebraResult(op, self, other, out, val) ==
    [op |-> op, self |-> self, other |-> other, err |-> out.err,
     ref |-> out.ref, val |-> val]

AlgebraStep(op, self, other, out, val) ==
    /\ nOps < MaxOps
    /\ heap' = out.heap
    /\ aret' = AlgebraResult(op, self, other, out, val)
    /\ nOps' = nOps + 1

AlgebraInit ==
    /\ \E t \in Thicknesses : heap = Heap0(t)
    /\ aret = AlgebraResult("init", 0, 0, Out(heap, 0, "none"), None)
    /\ nOps = 0

\* a + b: Python calls the __add__ of a's class
Add ==
    \E a \in NamedOperands, b \in NamedOperands :
        /\ IsLayer(heap[a]) \/ heap[a].kind = "Scatterer"
        /\ AlgebraStep("add", a, b,
               CASE heap[a].kind = "Stack" -> Stack__add__(heap, a, b)
                 [] heap[a].kind = "Scatterer" ->
                        MaterialStacker__add__(heap, a, b)
                 [] OTHER -> Layer__add__(heap, a, b),
               None)

\* x * n and n * x
Mul ==
    \E x \in NamedLayers, n \in Counts :
        AlgebraStep("mul", x, n,
            IF heap[x].kind = "Stack" THEN Stack__mul__(heap, x, n)
            ELSE Layer__mul__(heap, x, n),
            None)

\* x / v
Div ==
    \E x \in NamedOperands, v \in SetValues :
        /\ IsLayer(heap[x]) \/ heap[x].kind = "Scatterer"
        /\ AlgebraStep("div", x, v,
               IF heap[x].kind = "Scatterer"
               THEN MaterialStacker__div__(heap, x, v)
               ELSE Layer__div__(heap, x, v),
               None)

\* x % v
Mod ==
    \E x \in NamedOperands, v \in SetValues :
        /\ IsLayer(heap[x]) \/ heap[x].kind = "Scatterer"
        /\ AlgebraStep("mod", x, v,
               IF heap[x].kind = "Scatterer"
               THEN MaterialStacker__mod__(heap, x, v)
               ELSE Layer__mod__(heap, x, v),
               None)

InPlaceValues == {40}

\* x /= v
IDiv ==
    \E x \in NamedLayers, v \in InPlaceValues :
        AlgebraStep("idiv", x, v, Layer__idiv__(heap, x, v), None)

\* x %= v
IMod ==
    \E x \in NamedLayers, v \in InPlaceValues :
        AlgebraStep("imod", x, v, Layer__imod__(heap, x, v), None)

\* the objects Stack.add(other) looks at one by one
Elements(h, other) ==
    CASE h[other].kind = "Stack" ->
             { h[other].layers[i] : i \in 1..Len(h[other].layers) }
      [] h[other].kind = "list" ->
             { h[other].items[i] : i \in 1..Len(h[other].items) }
      [] OTHER -> {other}

\* s.add(other), called on a stack; the script never puts a stack under
\* itself
StackAdd ==
    \E s \in NamedLayers, other \in NamedOperands :
        /\ heap[s].kind = "Stack"
        /\ \A el \in Elements(heap, other) : ~Reaches(heap, el, s)
        /\ AlgebraStep("Stack.add", s, other,
               LET a == add(heap, s, other) IN Out(a.heap, 0, a.err), None)

\* s[0] = other
SetItem ==
    \E s \in NamedLayers, other \in NamedOperands :
        /\ heap[s].kind = "Stack"
        /\ Len(heap[s].layers) > 0
        /\ ~Reaches(heap, other, s)
        /\ AlgebraStep("Stack.__setitem__", s, other,
                       Stack__setitem__(heap, s, 0, other), None)

\* x.render(probe, slabs) into a cleared buffer, twice in a row
RenderTwice ==
    \E x \in NamedLayers :
        LET r1 == render(heap, x, clear)
            r2 == render(r1.heap, x, clear)
        IN  AlgebraStep("render", x, 0, Out(r2.heap, 0, "none"),
                        [first |-> r1.buffer, second |-> r2.buffer])

AlgebraIdle ==
    /\ heap = << >>
    /\ aret = AlgebraResult("init", 0, 0, Out(heap, 0, "none"), None)
    /\ nOps = 0

(***************************************************************************)
(* Two Experiment instances.  An instance holds its cache and a reference  *)
(* to the Microslabs object that __init__ made for it; bufs maps the       *)
(* references to the buffers.  A call on instance i runs the method on     *)
(* what i holds and refers to, and writes the results back there.          *)
(***************************************************************************)
\* Experiment.__init__ that takes the first Microslabs ever made instead of
\* making one
Experiment__init__shared(b, s, p) ==
    [exp |-> [sample |-> s, probe |-> p, cache |-> EmptyDict, slabs |-> 1,
              nRender |-> 0, nRefl |-> 0],
     bufs |-> IF Len(b) = 0 THEN <<clear>> ELSE b]

\* Experiment.__init__(sample, probe): self._slabs is a new Microslabs,
\* self._cache a new dict
Experiment__init__(b, s, p) ==
    [exp |-> [sample |-> s, probe |-> p, cache |-> EmptyDict,
              slabs |-> Len(b) + 1, nRender |-> 0, nRefl |-> 0],
     bufs |-> Append(b, clear)]

Instances == {1, 2}

\* instance i as the methods see it: self._slabs is the object referred to
SelfOf(i) == [exps[i] EXCEPT !.slabs = bufs[exps[i].slabs]]

\* the method's results go to the instance and to the object it refers to
InstallOf(i, self) ==
    /\ exps' = [exps EXCEPT ![i].cache = self.cache,
                            ![i].nRender = self.nRender,
                            ![i].nRefl = self.nRefl]
    /\ bufs' = [bufs EXCEPT ![exps[i].slabs] = self.slabs]

PairInit ==
    /\ \E s1 \in Samples, s2 \in Samples :
           LET p == ProbeOf(TRUE, TRUE, FALSE)
               e1 == Experiment__init__(<< >>, s1, p)
               e2 == Experiment__init__(e1.bufs, s2, p)
           IN  /\ exps = <<e1.exp, e2.exp>>
               /\ bufs = e2.bufs
               /\ alone = << [e1.exp EXCEPT !.slabs = clear],
                             [e2.exp EXCEPT !.slabs = clear] >>
    /\ pret = Result("init", <<0>>, "none", None)

\* the caller sets a parameter of the sample of instance i
PairSetParameter ==
    \E i \in Instances, s \in Samples :
        /\ s # exps[i].sample
        /\ exps' = [exps EXCEPT ![i].sample = s]
        /\ alone' = [alone EXCEPT ![i].sample = s]
        /\ pret' = Result("set", <<i>>, "none", None)
        /\ UNCHANGED bufs

PairUpdate ==
    \E i \in Instances :
        /\ InstallOf(i, update(SelfOf(i)))
        /\ alone' = [alone EXCEPT ![i] = update(@)]
        /\ pret' = Result("update", <<i>>, "none", None)

PairReflectivity ==
    \E i \in Instances :
        LET s1 == reflectivity(SelfOf(i), TRUE, TRUE)
        IN  /\ InstallOf(i, s1)
            /\ alone' = [alone EXCEPT ![i] = reflectivity(@, TRUE, TRUE)]
            /\ pret' = Result("reflectivity", <<i>>, "none",
                              s1.cache[ReflKey(TRUE, TRUE)])

PairStepProfile ==
    \E i \in Instances :
        LET s1 == step_profile(SelfOf(i))
        IN  /\ InstallOf(i, s1)
            /\ alone' = [alone EXCEPT ![i] = step_profile(@)]
            /\ pret' = Result("step_profile", <<i>>, "none",
                              s1.cache[<<"step_profile">>])

PairIdle ==
    /\ exps = << >>
    /\ bufs = << >>
    /\ alone = << >>
    /\ pret = Result("init", <<0>>, "none", None)

(***************************************************************************)
(* CompositeExperiment, Weights and DistributionExperiment.  A script      *)
(* constructs the object and calls it; an exception ends the script unless *)
(* the script says it is caught.                                           *)
(***************************************************************************)
SeqsUpTo(S, n) == UNION { [1..k -> S] : k \in 0..n }

Ratios == 1..MaxRatio
Weightings == 0..MaxWeight

\* a lone Experiment, its Microslabs held in the record
NewExperiment(s, p) ==
    [Experiment__init__(<< >>, s, p).exp EXCEPT !.slabs = clear]

\* CompositeExperiment.__init__(samples, ratio, probe).  Parameter is not
\* a name of the module (nothing imports it), so the comprehension over
\* ratio raises NameError at its first element; self.probe and
\* self._cache are never assigned.
Composite__init__(samples, ratio, p) ==
    IF Len(ratio) > 0
    THEN [err |-> "NameError", self |-> [samples |-> samples]]
    ELSE [err |-> "none",
          self |-> [samples |-> samples, ratio |-> ratio,
                    parts |-> [k \in 1..Len(samples) |->
                                  NewExperiment(samples[k], p)],
                    cache |-> None]]

\* ExperimentBase.update, as CompositeExperiment inherits it
Composite_update(self) == [self EXCEPT !.cache = EmptyDict]

\* CompositeExperiment.reflectivity(resolution, beam).  f is a 0-d array
\* holding a generator; each part computes p.reflectivity() with the
\* default flags; zip(*[]) has nothing to unpack into Qs, Rs; with parts,
\* f/numpy.sum(f,axis=0) divides a generator by a generator.
Composite_reflectivity(self, resolution, beam) ==
    LET parts == [k \in 1..Len(self.parts) |->
                     reflectivity(self.parts[k], TRUE, TRUE)]
    IN  [self |-> [self EXCEPT !.parts = parts],
         err |-> IF Len(parts) = 0 THEN "ValueError" ELSE "TypeError",
         val |-> None]

\* Parameter.set on the thickness of sample k of the composite; the part
\* holds the same tree
Composite_set(self, k, s) ==
    [self EXCEPT !.samples[k] = s, !.parts[k].sample = s]

\* Weights.__init__(edges, cdf, args, loc, scale, truncated): edges, cdf
\* and truncated are assigned, then Parameter.default(loc) raises
\* NameError
Weights__init__(edges, cdf, truncated) ==
    [err |-> "NameError",
     self |-> [edges |-> edges, cdf |-> cdf, truncated |-> truncated]]

\* Weights.__iter__.  The centers and the cumulative weights are taken
\* from the edges as they are at the call; a distribution that is not
\* truncated then has its first and last edge overwritten, in the array
\* the object holds; the name weigths is not defined, so only a total of
\* zero returns (the empty iterator).  Integer edges: / is floor division.
Weights__iter__(self) ==
    LET n == Len(self.edges)
        centers == [k \in 1..(n - 1) |->
                       (self.edges[k] + self.edges[k + 1]) \div 2]
        cumulative_weights == [k \in 1..n |-> self.cdf[self.edges[k]]]
        edges == IF self.truncated THEN self.edges
                 ELSE [self.edges EXCEPT ![1] = 0, ![n] = 1]
        relative_weights == [k \in 1..(n - 1) |->
                                cumulative_weights[k + 1]
                                    - cumulative_weights[k]]
        total_weight == cumulative_weights[n] - cumulative_weights[1]
    IN  [self |-> [self EXCEPT !.edges = edges],
         err |-> IF total_weight = 0 THEN "none" ELSE "NameError",
         val |-> IF total_weight = 0 THEN << >> ELSE None]

\* DistributionExperiment.__init__(experiment, P, distribution):
\* self.x = x raises NameError after self.P is assigned
Distribution__init__(experiment, distribution) ==
    [err |-> "NameError", self |-> [P |-> experiment.sample]]

\* DistributionExperiment.reflectivity, the distribution a list of
\* (x, w).  The first bin sets P, calls self.experiment.update() and then
\* reads the name experiment, which is not defined; without bins R stays
\* 0 and the zero curve on probe.Q is returned.
Distribution_reflectivity(self) ==
    IF Len(self.distribution) = 0
    THEN [self |-> self, err |-> "none",
          val |-> [Q |-> self.experiment.probe.Q,
                   R |-> [op |-> "zeros_like", of |-> "Q", nan |-> FALSE]]]
    ELSE [self |-> [self EXCEPT
                       !.experiment =
                           update([@ EXCEPT !.sample =
                                      SampleOf(self.distribution[1].x, 2,
                                               FALSE)])],
          err |-> "NameError", val |-> None]

\* what a script leaves: the call that raised (or the last call), the
\* exception, the value returned and the objects
Outcome(script, args, at, err, val, obj) ==
    [script |-> script, args |-> args, at |-> at, err |-> err, val |-> val,
     obj |-> obj]

\* c = CompositeExperiment(samples, ratio, probe);
\* c.reflectivity(resolution, beam)
CompositeQuery ==
    \E samples \in SeqsUpTo(Samples, MaxParts),
       ratio \in SeqsUpTo(Ratios, MaxParts),
       resolution \in BOOLEAN, beam \in BOOLEAN :
        /\ Len(ratio) \in {0, Len(samples)}
        /\ LET args == [samples |-> samples, ratio |-> ratio,
                        resolution |-> resolution, beam |-> beam]
               c == Composite__init__(samples, ratio,
                                      ProbeOf(TRUE, TRUE, FALSE))
               r == Composite_reflectivity(c.self, resolution, beam)
           IN  mix' = IF c.err # "none"
                      THEN Outcome("CompositeQuery", args,
                                   "CompositeExperiment.__init__", c.err,
                                   None, c.self)
                      ELSE Outcome("CompositeQuery", args, "reflectivity",
                                   r.err, r.val, r.self)

\* c = CompositeExperiment(samples, ratio, probe); c.reflectivity(), any
\* exception caught; the thickness in sample k is set; c.update();
\* c.reflectivity().  obj is c as update() left it.
CompositeRefit ==
    \E samples \in SeqsUpTo(Samples, MaxParts),
       ratio \in SeqsUpTo(Ratios, MaxParts),
       k \in 1..MaxParts, s \in Samples :
        /\ Len(ratio) \in {0, Len(samples)}
        /\ k <= Len(samples)
        /\ s # samples[k]
        /\ LET args == [samples |-> samples, ratio |-> ratio, k |-> k,
                        s |-> s]
               c == Composite__init__(samples, ratio,
                                      ProbeOf(TRUE, TRUE, FALSE))
               r1 == Composite_reflectivity(c.self, TRUE, TRUE)
               u == Composite_update(Composite_set(r1.self, k, s))
               r2 == Composite_reflectivity(u, TRUE, TRUE)
           IN  mix' = IF c.err # "none"
                      THEN Outcome("CompositeRefit", args,
                                   "CompositeExperiment.__init__", c.err,
                                   None, c.self)
                      ELSE Outcome("CompositeRefit", args, "reflectivity",
                                   r2.err, r2.val, u)

Bins == SeqsUpTo([x : Thicknesses, w : Weightings], MaxBins)

\* e = Experiment(sample, probe); e.reflectivity();
\* d = DistributionExperiment(e, P, distribution), P the thickness in the
\* sample and distribution either a Weights(edges, cdf, ...) that stands
\* for the bins or a list of (x, w);
\* d.reflectivity().  obj is e as the script left it.
DistributionQuery ==
    \E s \in Samples, bins \in Bins, asWeights \in BOOLEAN :
        LET args == [sample |-> s, bins |-> bins, asWeights |-> asWeights]
            e == reflectivity(NewExperiment(s, ProbeOf(TRUE, TRUE, FALSE)),
                              TRUE, TRUE)
            w == Weights__init__("edges", "cdf", TRUE)
            d == Distribution__init__(e, bins)
            r == Distribution_reflectivity(d.self)
        IN  mix' = IF asWeights /\ w.err # "none"
                   THEN Outcome("DistributionQuery", args,
                                "Weights.__init__", w.err, None, e)
                   ELSE IF d.err # "none"
                   THEN Outcome("DistributionQuery", args,
                                "DistributionExperiment.__init__", d.err,
                                None, e)
                   ELSE Outcome("DistributionQuery", args, "reflectivity",
                                r.err, r.val, r.self.experiment)

\* bin edges, increasing, and what the loop overwrites them with
EdgeValues == {5, 15, 25}
AllEdgeValues == EdgeValues \cup {0, 1}

EdgeLists ==
    {e \in SeqsUpTo(EdgeValues, MaxBins + 1) :
        /\ Len(e) >= 2
        /\ \A k \in 1..(Len(e) - 1) : e[k] < e[k + 1]}

\* cumulative densities, in units of 1 / (MaxWeight + 1): non-decreasing
Cdfs ==
    {f \in [AllEdgeValues -> 0..(MaxWeight + 1)] :
        \A x, y \in AllEdgeValues : x <= y => f[x] <= f[y]}

\* w = Weights(edges, cdf, truncated=truncated); first = list(w);
\* second = list(w).  obj is w as the script left it.
WeightsIterate ==
    \E edges \in EdgeLists, cdf \in Cdfs, truncated \in BOOLEAN :
        LET args == [edges |-> edges, cdf |-> cdf, truncated |-> truncated]
            w == Weights__init__(edges, cdf, truncated)
            i1 == Weights__iter__(w.self)
            i2 == Weights__iter__(i1.self)
        IN  mix' = IF w.err # "none"
                   THEN Outcome("WeightsIterate", args, "Weights.__init__",
                                w.err, None, w.self)
                   ELSE IF i1.err # "none"
                   THEN Outcome("WeightsIterate", args, "__iter__", i1.err,
                                None, i1.self)
                   ELSE Outcome("WeightsIterate", args, "__iter__", i2.err,
                                [first |-> i1.val, second |-> i2.val],
                                i2.self)

MixInit ==
    mix = Outcome("none", << >>, "none", "none", None, None)

MixIdle == MixInit

(***************************************************************************)
(* Specifications                                                          *)
(***************************************************************************)
\* the Experiment as the specifications that do not drive it leave it
ExpIdle ==
    /\ sample = SampleOf(10, 2, FALSE)
    /\ probe = ProbeOf(TRUE, TRUE, FALSE)
    /\ cache = EmptyDict
    /\ slabs = clear
    /\ ret = Result("init", << >>, "none", None)
    /\ nRender = 0
    /\ nRefl = 0
    /\ staleDropped = FALSE

Init ==
    /\ ExpInit
    /\ RenderInit
    /\ AlgebraIdle
    /\ PairIdle
    /\ MixIdle

Next ==
    \/ SetParameter /\ UNCHANGED <<renderVars, algebraVars, pairVars, mixVars>>
    \/ Update /\ UNCHANGED <<renderVars, algebraVars, pairVars, mixVars>>
    \/ Reflectivity /\ UNCHANGED <<renderVars, algebraVars, pairVars, mixVars>>
    \/ Amplitude /\ UNCHANGED <<renderVars, algebraVars, pairVars, mixVars>>
    \/ SmoothProfile /\ UNCHANGED <<renderVars, algebraVars, pairVars, mixVars>>
    \/ StepProfile /\ UNCHANGED <<renderVars, algebraVars, pairVars, mixVars>>
    \/ Slabs /\ UNCHANGED <<renderVars, algebraVars, pairVars, mixVars>>
    \/ Fresnel /\ UNCHANGED <<renderVars, algebraVars, pairVars, mixVars>>
    \/ Residuals /\ UNCHANGED <<renderVars, algebraVars, pairVars, mixVars>>
    \/ Nllf /\ UNCHANGED <<renderVars, algebraVars, pairVars, mixVars>>

Spec == Init /\ [][Next]_vars

InitRender ==
    /\ RenderInit
    /\ ExpIdle
    /\ AlgebraIdle
    /\ PairIdle
    /\ MixIdle

NextRender ==
    RepeatRenderCall /\ UNCHANGED <<expVars, algebraVars, pairVars, mixVars>>

SpecRender == InitRender /\ [][NextRender]_vars

InitAlgebra ==
    /\ AlgebraInit
    /\ RenderInit
    /\ ExpIdle
    /\ PairIdle
    /\ MixIdle

NextAlgebra ==
    \/ Add /\ UNCHANGED <<renderVars, expVars, pairVars, mixVars>>
    \/ Mul /\ UNCHANGED <<renderVars, expVars, pairVars, mixVars>>
    \/ Div /\ UNCHANGED <<renderVars, expVars, pairVars, mixVars>>
    \/ Mod /\ UNCHANGED <<renderVars, expVars, pairVars, mixVars>>
    \/ StackAdd /\ UNCHANGED <<renderVars, expVars, pairVars, mixVars>>
    \/ SetItem /\ UNCHANGED <<renderVars, expVars, pairVars, mixVars>>
    \/ RenderTwice /\ UNCHANGED <<renderVars, expVars, pairVars, mixVars>>

SpecAlgebra == InitAlgebra /\ [][NextAlgebra]_vars

\* scripts that set thickness and interface, by copy and in place
NextInPlace ==
    \/ Div /\ UNCHANGED <<renderVars, expVars, pairVars, mixVars>>
    \/ Mod /\ UNCHANGED <<renderVars, expVars, pairVars, mixVars>>
    \/ IDiv /\ UNCHANGED <<renderVars, expVars, pairVars, mixVars>>
    \/ IMod /\ UNCHANGED <<renderVars, expVars, pairVars, mixVars>>

SpecInPlace == InitAlgebra /\ [][NextInPlace]_vars

InitPair ==
    /\ PairInit
    /\ RenderInit
    /\ ExpIdle
    /\ AlgebraIdle
    /\ MixIdle

NextPair ==
    \/ PairSetParameter /\ UNCHANGED <<renderVars, expVars, algebraVars, mixVars>>
    \/ PairUpdate /\ UNCHANGED <<renderVars, expVars, algebraVars, mixVars>>
    \/ PairReflectivity /\ UNCHANGED <<renderVars, expVars, algebraVars, mixVars>>
    \/ PairStepProfile /\ UNCHANGED <<renderVars, expVars, algebraVars, mixVars>>

SpecPair == InitPair /\ [][NextPair]_vars

InitMixture ==
    /\ MixInit
    /\ RenderInit
    /\ ExpIdle
    /\ AlgebraIdle
    /\ PairIdle

NextMixture ==
    \/ CompositeQuery /\ UNCHANGED <<renderVars, expVars, algebraVars, pairVars>>
    \/ CompositeRefit /\ UNCHANGED <<renderVars, expVars, algebraVars, pairVars>>
    \/ DistributionQuery /\ UNCHANGED <<renderVars, expVars, algebraVars, pairVars>>
    \/ WeightsIterate /\ UNCHANGED <<renderVars, expVars, algebraVars, pairVars>>

SpecMixture == InitMixture /\ [][NextMixture]_vars

(***************************************************************************)
(* Properties of the Experiment (checked under Spec)                       *)
(***************************************************************************)
\* the slabs a stored or returned array was computed from
RECURSIVE SlabsUnder(_)
SlabsUnder(a) == IF a.op = "refl" THEN a.slabs ELSE SlabsUnder(a.of)

\* C1: update() leaves no cache entry, and the reflectivity() call that
\* follows an update() returns a curve computed from a rendering of the
\* sample with the parameter values current at that call.
C1_UpdateInvalidates ==
    [][ /\ ret'.op = "update" => cache' = EmptyDict
        /\ (ret.op = "update" /\ ret'.op = "reflectivity") =>
              /\ SlabsUnder(ret'.val.R) = Render(sample', clear)
              /\ nRender' = 1 /\ nRefl' = 1 ]_vars

\* an update() dropped results of older parameter values, and a
\* reflectivity() call, the only query since, has been answered
C1_Witness ==
    /\ staleDropped
    /\ ret.op = "reflectivity"
    /\ DOMAIN cache = {<<"rendered">>, <<"calc_r">>,
                       <<"reflectivity", ret.args[1], ret.args[2]>>}
    /\ SlabsUnder(ret.val.R) = Render(sample, clear)

\* C2: between two update() calls the sample is rendered at most once and
\* refl() is called at most once, whatever is queried, and a
\* reflectivity(resolution, beam) call whose key is stored returns the
\* stored result and computes nothing.
C2_ComputedOncePerUpdate ==
    [][ /\ nRender' <= 1
        /\ nRefl' <= 1
        /\ (/\ ret'.op = "reflectivity"
            /\ Has(cache, <<"reflectivity", ret'.args[1], ret'.args[2]>>)) =>
              /\ ret'.val = cache[<<"reflectivity", ret'.args[1], ret'.args[2]>>]
              /\ UNCHANGED <<cache, slabs, nRender, nRefl>> ]_vars

\* residuals are stored, so reflectivity(True, True) had been stored before
\* the reflectivity(True, True) call that was answered last
C2_Witness ==
    /\ ret.op = "reflectivity"
    /\ ret.args = <<TRUE, TRUE>>
    /\ Has(cache, <<"residuals">>)
    /\ Has(cache, <<"amplitude">>)
    /\ Has(cache, <<"step_profile">>)
    /\ nRender = 1
    /\ nRefl = 1

\* whether curve v is what the pipeline of (resolution, beam) produces
PipelineOf(v, resolution, beam) ==
    LET R == IF v.R.op = "beam" THEN v.R.of ELSE v.R
    IN  /\ (v.R.op = "beam") = beam
        /\ (R.op = "resolution") = resolution
        /\ (IF R.op = "resolution" THEN R.of.op ELSE R.op) = "abs2"
        /\ v.Q = (IF resolution THEN "Q" ELSE "calc_Q")

\* C3: every (resolution, beam) combination is stored under its own key:
\* the stored and the returned curve of a combination is the one its own
\* pipeline computes.
C3_OwnKeyPerFlags ==
    /\ \A resolution \in BOOLEAN, beam \in BOOLEAN :
          Has(cache, <<"reflectivity", resolution, beam>>) =>
             PipelineOf(cache[<<"reflectivity", resolution, beam>>],
                        resolution, beam)
    /\ ret.op = "reflectivity" =>
          /\ PipelineOf(ret.val, ret.args[1], ret.args[2])
          /\ Has(cache, <<"reflectivity", ret.args[1], ret.args[2]>>)
          /\ ret.val = cache[<<"reflectivity", ret.args[1], ret.args[2]>>]

\* all four combinations are stored, the last call asked for the curve
\* without resolution and without beam effects
C3_Witness ==
    /\ \A resolution \in BOOLEAN, beam \in BOOLEAN :
          Has(cache, <<"reflectivity", resolution, beam>>)
    /\ ret.op = "reflectivity"
    /\ ret.args = <<FALSE, FALSE>>

\* C4: no cache entry 'calc_r', 'amplitude' or reflectivity key holds a
\* result with a NaN in it, and no query returns one.
C4_NoNaNCached ==
    /\ Has(cache, <<"calc_r">>) => ~cache[<<"calc_r">>].nan
    /\ Has(cache, <<"amplitude">>) => ~cache[<<"amplitude">>].r.nan
    /\ \A resolution \in BOOLEAN, beam \in BOOLEAN :
          Has(cache, <<"reflectivity", resolution, beam>>) =>
             ~cache[<<"reflectivity", resolution, beam>>].R.nan
    /\ ret.op = "reflectivity" => ~ret.val.R.nan
    /\ ret.op = "amplitude" => ~ret.val.r.nan

\* C5: residuals() on a probe without R raises the missing-data error
\* (ValueError "No data from which to calculate residuals") and renders
\* nothing, computes nothing and leaves the cache as it was.
C5_ResidualsWithoutData ==
    [][ (ret'.op = "residuals" /\ ~probe.hasR) =>
           /\ ret'.err = "ValueError"
           /\ UNCHANGED <<cache, slabs, nRender, nRefl>> ]_vars

\* residuals() has failed on a probe without R, the cache holding the
\* rendering and a profile from earlier queries
C5_Witness ==
    /\ ret.op = "residuals"
    /\ ~probe.hasR
    /\ ret.err = "ValueError"
    /\ DOMAIN cache = {<<"rendered">>, <<"step_profile">>}

\* C6: residuals() on a probe with R but without dR raises the
\* missing-data error, and does so before any reflectivity is computed.
C6_ResidualsWithoutUncertainty ==
    (ret.op = "residuals" /\ probe.hasR /\ ~probe.hasdR) =>
        /\ ret.err = "ValueError"
        /\ ~Has(cache, <<"reflectivity", TRUE, TRUE>>)

(***************************************************************************)
(* Properties of Repeat.render (checked under SpecRender)                  *)
(***************************************************************************)
\* same slabs in the same order, whatever their roughness
SameSlabs(a, b) ==
    /\ Len(a) = Len(b)
    /\ \A i \in 1..Len(a) :
          /\ a[i].w = b[i].w
          /\ a[i].rho = b[i].rho
          /\ a[i].irho = b[i].irho

\* C7: with repeat count 0, Repeat.render appends no slab and changes no
\* interface value, with and without a capping interface.
C7_RepeatZeroRendersNothing ==
    (Called /\ rep.repeat = 0) => buf = mark0

\* C8: with repeat count 1, Repeat.render leaves the slabs that rendering
\* the inner stack once leaves: as many, in the same order.
C8_RepeatOneIsInnerOnce ==
    (Called /\ rep.repeat = 1) => SameSlabs(buf, InnerOnce(rep, mark0))

\* C9: for a count n >= 1, Repeat.render renders the inner stack once,
\* then has the buffer repeat the span n - 1 times without a capping
\* interface and n times with one, then sets the capping interface if any.
C9_RenderRepeatInterface ==
    (Called /\ rep.repeat >= 1) =>
        calls = IF ~rep.hasInterface
                THEN << [call |-> "render", arg |-> 0],
                        [call |-> "repeat", arg |-> rep.repeat - 1] >>
                ELSE << [call |-> "render", arg |-> 0],
                        [call |-> "repeat", arg |-> rep.repeat],
                        [call |-> "interface", arg |-> rep.interface] >>

\* C10: one call of Repeat.render renders the inner stack at most once.
C10_InnerRenderedAtMostOnce ==
    Called => CountCalls(calls, "render") <= 1


(***************************************************************************)
(* Properties of the layer algebra (checked under SpecAlgebra)             *)
(***************************************************************************)
\* the objects of h0 are in h1 as they were
Untouched(h0, h1) ==
    /\ Len(h1) >= Len(h0)
    /\ \A x \in 1..Len(h0) : h1[x] = h0[x]

\* how many layers operand x brings to a sum
Brings(h, x) == IF h[x].kind = "Stack" THEN Len(h[x].layers) ELSE 1

\* seg is what operand x brings to a sum: the layers of a Stack, a layer
\* itself, a new Slab of zero thickness and roughness around a material
BroughtBy(h0, h1, x, seg) ==
    CASE h0[x].kind = "Stack" -> seg = h0[x].layers
      [] h0[x].kind = "Scatterer" ->
             /\ Len(seg) = 1
             /\ seg[1] > Len(h0)
             /\ h1[seg[1]].kind = "Slab"
             /\ h1[seg[1]].material = x
             /\ h1[h1[seg[1]].thickness].value = 0
             /\ h1[h1[seg[1]].interface].value = 0
      [] OTHER -> seg = <<x>>

\* C11: a + b, each operand a layer, a material or a Stack, returns a new
\* Stack whose layers are those of a followed by those of b, a Stack operand
\* giving its own layers (never itself as one element) and a material a new
\* Slab; no object that existed before, the operand Stacks and their layer
\* sequences among them, is changed.
C11_AddConcatenates ==
    [][(aret'.op = "add"
        /\ (IsLayer(heap[aret'.other])
            \/ heap[aret'.other].kind = "Scatterer"))
       => LET a == aret'.self
              b == aret'.other
              s == aret'.ref
          IN  /\ aret'.err = "none"
              /\ s > Len(heap)
              /\ heap'[s].kind = "Stack"
              /\ Len(heap'[s].layers) = Brings(heap, a) + Brings(heap, b)
              /\ BroughtBy(heap, heap', a,
                           SubSeq(heap'[s].layers, 1, Brings(heap, a)))
              /\ BroughtBy(heap, heap', b,
                           SubSeq(heap'[s].layers, Brings(heap, a) + 1,
                                  Len(heap'[s].layers)))
              /\ Untouched(heap, heap')]_vars

\* a material was added to the sum of an earlier step, itself a sum of a
\* layer and a Stack
C11_Witness ==
    /\ aret.op = "add"
    /\ aret.err = "none"
    /\ aret.self > Len(Heap0(0))
    /\ heap[aret.self].kind = "Stack"
    /\ heap[aret.other].kind = "Scatterer"
    /\ Len(heap[aret.ref].layers) = 3
    /\ heap[aret.self].layers = <<5, 5>>

\* C12: x * n (and n * x) returns a new Repeat with count n over x, over x
\* itself when x is a Stack and over a new Stack holding just x when x is
\* another layer, exactly when x is not a Slab and n is an integer greater
\* than 1; in every other case it raises and makes no object at all.
C12_MulRepeats ==
    [][aret'.op = "mul"
       => LET x == aret'.self
              n == aret'.other
              r == aret'.ref
          IN  IF n.isInt /\ n.value > 1 /\ heap[x].kind # "Slab"
              THEN /\ aret'.err = "none"
                   /\ r > Len(heap)
                   /\ heap'[r].kind = "Repeat"
                   /\ heap'[heap'[r].repeat].value = n.value
                   /\ IF heap[x].kind = "Stack" THEN heap'[r].stack = x
                      ELSE /\ heap'[r].stack > Len(heap)
                           /\ heap'[heap'[r].stack].kind = "Stack"
                           /\ heap'[heap'[r].stack].layers = <<x>>
                   /\ Untouched(heap, heap')
              ELSE /\ aret'.err # "none"
                   /\ aret'.ref = 0
                   /\ heap' = heap]_vars

\* a Repeat was repeated twice: the result repeats a Stack that holds it
C12_Witness ==
    /\ aret.op = "mul"
    /\ aret.err = "none"
    /\ heap[aret.self].kind = "Repeat"
    /\ aret.other = CountOf(TRUE, 2)
    /\ heap[aret.ref].kind = "Repeat"
    /\ heap[heap[aret.ref].stack].layers = <<aret.self>>

\* whether x has the parameter that x / v (op "div") or x % v (op "mod")
\* sets: a material gets a new Slab, a Slab has both, a Repeat has an
\* interface only if it was made with one, a Stack has neither
HasParameter(h, x, op) ==
    \/ h[x].kind \in {"Scatterer", "Slab"}
    \/ op = "mod" /\ h[x].kind = "Repeat" /\ h[x].interface # 0

\* C13: x / v and x % v are copy-on-write.  What they return is a new layer
\* whose thickness (for /) or interface (for %) is a new parameter holding
\* v; no object that existed before is changed, so the original layer keeps
\* its parameters and their values and every tree that existed renders as
\* before.  They return for every x that has the parameter and raise for
\* the others, changing nothing either.
C13_SetIsCopyOnWrite ==
    [][aret'.op \in {"div", "mod"}
       => LET x == aret'.self
              v == aret'.other
              c == aret'.ref
              p == IF aret'.op = "div" THEN heap'[c].thickness
                   ELSE heap'[c].interface
          IN  /\ Untouched(heap, heap')
              /\ \A y \in 1..Len(heap) :
                     IsLayer(heap[y])
                     => Render(Tree(heap', y), clear)
                            = Render(Tree(heap, y), clear)
              /\ (aret'.err = "none") = HasParameter(heap, x, aret'.op)
              /\ aret'.err = "none"
                 => /\ c > Len(heap)
                    /\ IsLayer(heap'[c])
                    /\ p > Len(heap)
                    /\ heap'[p] = Parameter(v)
                    /\ IsLayer(heap[x]) => heap'[c].kind = heap[x].kind
                    /\ heap[x].kind = "Scatterer"
                       => /\ heap'[c].kind = "Slab"
                          /\ heap'[c].material = x]_vars

\* the slab L, which lies in the stack T and under the repeat of T, was
\* given another thickness: the copy holds 30 and L keeps its own
C13_Witness ==
    /\ aret.op = "div"
    /\ aret.err = "none"
    /\ aret.self = 5
    /\ heap[6].layers = <<5>>
    /\ heap[heap[aret.ref].thickness].value = 30
    /\ heap[heap[5].thickness].value # 30

\* whether the object is neither a layer nor a material
Unstackable(h, el) == ~IsLayer(h[el]) /\ h[el].kind # "Scatterer"

\* every element of every Stack is a layer
StacksHoldLayers(h) ==
    \A s \in 1..Len(h) :
        h[s].kind = "Stack"
        => \A i \in 1..Len(h[s].layers) : IsLayer(h[h[s].layers[i]])

\* C14: a + b, s.add(b) and s[i] = b raise TypeError at that call when b,
\* or an element of the sequence b, is neither a layer nor a material; and
\* after every operation each element of each Stack is a layer.
C14_NonLayerRefused ==
    [][/\ (aret'.op \in {"add", "Stack.add"}
           /\ \E el \in Elements(heap, aret'.other) : Unstackable(heap, el))
          => aret'.err = "TypeError"
       /\ (aret'.op = "Stack.__setitem__" /\ Unstackable(heap, aret'.other))
          => aret'.err = "TypeError"
       /\ StacksHoldLayers(heap')]_vars

\* s.add([L, 5]) raised on the number; L, which came before it in the list,
\* has been appended to the stack
C14_Witness ==
    /\ aret.op = "Stack.add"
    /\ aret.self = 6
    /\ heap[aret.other] = PyList(<<5, 2>>)
    /\ aret.err = "TypeError"
    /\ heap[6].layers = <<5, 5>>
    /\ StacksHoldLayers(heap)

C19_InstancesIndependent ==
    [][\A i \in Instances, j \in Instances :
          (pret'.args = <<i>> /\ j # i)
          => /\ exps[1].slabs # exps[2].slabs
             /\ exps'[j] = exps[j]
             /\ bufs'[exps[j].slabs] = bufs[exps[j].slabs]
             /\ SelfOf(j)' = alone'[j]
             /\ SelfOf(i)' = alone'[i]
             /\ pret'.op = "reflectivity"
                => pret'.val = alone'[i].cache[ReflKey(TRUE, TRUE)]
             /\ pret'.op = "step_profile"
                => pret'.val = alone'[i].cache[<<"step_profile">>]]_vars

\* instance 1 holds a step profile of its sample; then instance 2, with
\* another sample, computed its reflectivity: each has its own slabs
C19_Witness ==
    /\ pret.op = "reflectivity"
    /\ pret.args = <<2>>
    /\ Has(exps[1].cache, <<"step_profile">>)
    /\ exps[1].sample # exps[2].sample
    /\ bufs[exps[1].slabs] = Render(exps[1].sample, clear)
    /\ bufs[exps[2].slabs] = Render(exps[2].sample, clear)
    /\ bufs[exps[1].slabs] # bufs[exps[2].slabs]

(***************************************************************************)
(* Properties of CompositeExperiment and DistributionExperiment (checked   *)
(* under SpecMixture)                                                      *)
(***************************************************************************)
RECURSIVE Total(_)
Total(ws) == IF Len(ws) = 0 THEN 0 ELSE ws[1] + Total(Tail(ws))

\* the sum over k of ws[k] / Total(ws) * Rs[k]; of curves that are all the
\* same curve it is that curve
WeightedSum(ws, Rs) ==
    IF \A k \in 1..Len(Rs) : Rs[k] = Rs[1] THEN Rs[1]
    ELSE [op |-> "sum",
          terms |-> [k \in 1..Len(Rs) |->
                        [num |-> ws[k], den |-> Total(ws), R |-> Rs[k]]],
          nan |-> \E k \in 1..Len(Rs) : Rs[k].nan]

\* what Experiment(s, probe).reflectivity() returns, probe with full data
CurveOf(s) ==
    reflectivity(NewExperiment(s, ProbeOf(TRUE, TRUE, FALSE)), TRUE, TRUE)
        .cache[ReflKey(TRUE, TRUE)]

\* C15: reflectivity() of a CompositeExperiment over one or more samples,
\* with a ratio for each, returns one curve on the probe's Q: the sum of
\* the parts' reflectivities, each weighted by its ratio over the sum of
\* the ratios; for two identical samples with ratio [1, 1] that is the
\* curve of either sample alone.
C15_CompositeIsWeightedSum ==
    (/\ mix.script = "CompositeQuery"
     /\ Len(mix.args.samples) >= 1
     /\ Len(mix.args.ratio) = Len(mix.args.samples)
     /\ mix.args.resolution /\ mix.args.beam)
    => /\ mix.err = "none"
       /\ mix.val =
              [Q |-> CurveOf(mix.args.samples[1]).Q,
               R |-> WeightedSum(mix.args.ratio,
                                 [k \in 1..Len(mix.args.samples) |->
                                     CurveOf(mix.args.samples[k]).R])]

\* C20: once a parameter of a sub-sample has changed and update() has been
\* called on the CompositeExperiment, no part holds a cached result, and
\* the reflectivity() that follows is computed from the samples as they
\* are now.
C20_CompositeUpdateReachesParts ==
    mix.script = "CompositeRefit"
    => /\ mix.at # "CompositeExperiment.__init__"
       /\ \A k \in 1..Len(mix.obj.parts) :
              mix.obj.parts[k].cache = EmptyDict
       /\ mix.err = "none"
       /\ mix.val.R =
              WeightedSum(mix.args.ratio,
                          [k \in 1..Len(mix.obj.samples) |->
                              CurveOf(mix.obj.samples[k]).R])

\* C16: reflectivity() of a DistributionExperiment takes the bins in
\* order, and for each sets P to the bin's value, calls update() on the
\* wrapped experiment and only then computes its reflectivity, so that the
\* curve returned is the sum of the curves at the bins' values, each
\* weighted by its bin; with one bin of weight 1 at v it is the wrapped
\* experiment's curve at P = v.
C16_DistributionSumsBins ==
    (/\ mix.script = "DistributionQuery"
     /\ Len(mix.args.bins) >= 1
     /\ \A k \in 1..Len(mix.args.bins) : mix.args.bins[k].w > 0)
    => /\ mix.err = "none"
       /\ mix.val =
              [Q |-> CurveOf(mix.args.sample).Q,
               R |-> WeightedSum(
                         [k \in 1..Len(mix.args.bins) |-> mix.args.bins[k].w],
                         [k \in 1..Len(mix.args.bins) |->
                             CurveOf(SampleOf(mix.args.bins[k].x, 2,
                                              FALSE)).R])]

\* C17: when the weights of the distribution add up to zero,
\* reflectivity() of a DistributionExperiment returns the probe's Q with a
\* curve of zeros and raises nothing, and the wrapped experiment is as it
\* was: not updated, nothing computed.
C17_ZeroWeightGivesZeros ==
    (/\ mix.script = "DistributionQuery"
     /\ \A k \in 1..Len(mix.args.bins) : mix.args.bins[k].w = 0)
    => /\ mix.err = "none"
       /\ mix.val = [Q |-> CurveOf(mix.args.sample).Q,
                     R |-> [op |-> "zeros_like", of |-> "Q", nan |-> FALSE]]
       /\ mix.obj = reflectivity(NewExperiment(mix.args.sample,
                                               ProbeOf(TRUE, TRUE, FALSE)),
                                 TRUE, TRUE)

(***************************************************************************)
(* Properties of the Experiment's buffer and cache (checked under Spec)    *)
(***************************************************************************)
\* C21: a render pass starts from a cleared buffer.  A pass happens only in
\* a call that finds no 'rendered' in the cache, and leaves in the buffer
\* exactly the slabs of one rendering of the sample as it is then; a call
\* that makes no pass leaves the buffer as it was; so while 'rendered' is in
\* the cache the buffer holds one rendering of the sample, never slabs of
\* two passes.
C21_BufferClearedEachPass ==
    [][/\ nRender' = nRender + 1
          => /\ ~Has(cache, <<"rendered">>)
             /\ Has(cache', <<"rendered">>)
             /\ slabs' = Render(sample', clear)
       /\ nRender' # nRender + 1 => slabs' = slabs
       /\ Has(cache', <<"rendered">>)
          => \E s \in Samples : slabs' = Render(s, clear)]_vars

\* a second pass: the update() before it dropped a rendering of other
\* parameter values, whose slabs were still in the buffer when the pass began
C21_Witness ==
    /\ staleDropped
    /\ ret.op = "slabs"
    /\ nRender = 1
    /\ Has(cache, <<"rendered">>)
    /\ slabs = Render(sample, clear)

\* the keys of results derived from the rendering, and of those derived
\* from calc_r
RenderedKeys ==
    {<<"calc_r">>, <<"amplitude">>, <<"step_profile">>}
    \cup {ReflKey(resolution, beam) : resolution \in BOOLEAN, beam \in BOOLEAN}
    \cup {<<"smooth_profile", dz>> : dz \in DzValues}

CalcKeys ==
    {<<"amplitude">>}
    \cup {ReflKey(resolution, beam) : resolution \in BOOLEAN, beam \in BOOLEAN}

\* the slabs a cache entry was computed from
EntrySlabs(key, v) ==
    CASE key = <<"calc_r">> -> SlabsUnder(v)
      [] key = <<"amplitude">> -> SlabsUnder(v.r.re)
      [] key \in {<<"step_profile">>} \cup
                 {<<"smooth_profile", dz>> : dz \in DzValues} -> v.slabs
      [] OTHER -> SlabsUnder(v.R)

\* C24: in every state of the cache, an entry derived from the rendering
\* ('calc_r', 'amplitude', a reflectivity, a smooth profile, 'step_profile')
\* comes with 'rendered', and 'amplitude' and the reflectivities come with
\* 'calc_r'; all the entries were computed from one rendering, the one in
\* the buffer, and those derived from calc_r from the stored calc_r.
C24_CachePrerequisites ==
    /\ \A key \in RenderedKeys :
          Has(cache, key)
          => /\ Has(cache, <<"rendered">>)
             /\ EntrySlabs(key, cache[key]) = slabs
    /\ \A key \in CalcKeys :
          Has(cache, key)
          => /\ Has(cache, <<"calc_r">>)
             /\ IF key = <<"amplitude">>
                THEN cache[key].r.re.of.of = cache[<<"calc_r">>]
                ELSE LET R == IF cache[key].R.op = "beam"
                              THEN cache[key].R.of ELSE cache[key].R
                         calc_R == IF R.op = "resolution" THEN R.of ELSE R
                     IN  calc_R.of = cache[<<"calc_r">>]

\* every derived entry is stored, and the parameters have changed since
\* they were computed: they all still belong to the one rendering
C24_Witness ==
    /\ \A key \in RenderedKeys : Has(cache, key)
    /\ slabs # Render(sample, clear)

(***************************************************************************)
(* Properties of setting in place (checked under SpecInPlace)              *)
(***************************************************************************)
\* C25: the layer c that L / v or L % v returned shares no parameter with
\* L: a setting in place on c (c /= t or c %= s) leaves L, its thickness
\* and its interface as they were.
C25_CopySharesNoParameter ==
    [][(/\ aret.op \in {"div", "mod"}
        /\ aret.err = "none"
        /\ IsLayer(heap[aret.self])
        /\ aret'.op \in {"idiv", "imod"}
        /\ aret'.self = aret.ref)
       => /\ heap'[aret.self] = heap[aret.self]
          /\ Tree(heap', aret.self) = Tree(heap, aret.self)]_vars

(***************************************************************************)
(* Properties of CompositeExperiment's flags and of Weights (checked under *)
(* SpecMixture)                                                            *)
(***************************************************************************)
\* what Experiment(s, probe).reflectivity(resolution, beam) returns
CurveWith(s, resolution, beam) ==
    reflectivity(NewExperiment(s, ProbeOf(TRUE, TRUE, FALSE)),
                 resolution, beam).cache[ReflKey(resolution, beam)]

\* C22: reflectivity(resolution, beam) of a CompositeExperiment honours
\* its flags, for each of the four combinations: every part computes its
\* curve with the flags of the call (without resolution on the calculation
\* grid, without beam with no beam correction), and the curve returned is
\* the weighted sum of those curves.
C22_CompositeHonoursFlags ==
    (/\ mix.script = "CompositeQuery"
     /\ Len(mix.args.samples) >= 1)
    => /\ mix.at = "reflectivity"
       /\ \A k \in 1..Len(mix.obj.parts) :
              /\ Has(mix.obj.parts[k].cache,
                     ReflKey(mix.args.resolution, mix.args.beam))
              /\ mix.obj.parts[k].cache[ReflKey(mix.args.resolution,
                                                mix.args.beam)]
                     = CurveWith(mix.args.samples[k], mix.args.resolution,
                                 mix.args.beam)
       /\ mix.err = "none"
       /\ mix.val =
              [Q |-> CurveWith(mix.args.samples[1], mix.args.resolution,
                               mix.args.beam).Q,
               R |-> WeightedSum(mix.args.ratio,
                                 [k \in 1..Len(mix.args.samples) |->
                                     CurveWith(mix.args.samples[k],
                                               mix.args.resolution,
                                               mix.args.beam).R])]

\* the (center, weight) pairs of the bins between the edges: the weight of
\* a bin is the difference of the cumulative density at its edges over the
\* difference across all the bins; bins of weight zero are left out and a
\* total of zero gives no pair
BinPairs(edges, cdf) ==
    LET n == Len(edges)
        total == cdf[edges[n]] - cdf[edges[1]]
        all == [k \in 1..(n - 1) |->
                   [x |-> (edges[k] + edges[k + 1]) \div 2,
                    w |-> [num |-> cdf[edges[k + 1]] - cdf[edges[k]],
                           den |-> total]]]
        nonzero(b) == b.w.num > 0
    IN  IF total = 0 THEN << >> ELSE SelectSeq(all, nonzero)

\* C23: iterating a Weights distribution yields the (bin center, weight)
\* pairs, the weights being the per-bin differences of the cumulative
\* density normalised to sum to 1, with no pair of weight zero, and yields
\* nothing when the total weight is zero.
C23_WeightsYieldsNormalisedBins ==
    mix.script = "WeightsIterate"
    => /\ mix.err = "none"
       /\ mix.val.first = BinPairs(mix.args.edges, mix.args.cdf)

\* C26: iterating a Weights distribution is repeatable, truncated or not:
\* the iteration leaves the bin edges as they were, and a second iteration
\* yields the same (center, weight) pairs as the first.
C26_IterationRepeatable ==
    mix.script = "WeightsIterate"
    => /\ mix.err = "none"
       /\ mix.obj.edges = mix.args.edges
       /\ mix.val.second = mix.val.first

====
